---- MODULE Spec2Model ----
(***************************************************************************)
(* The NLP pack worker: a pool of daemons (each a dispatcher with          *)
(* NUM_WORKERS threads) polling the pipeline_jobs table, the stale-lease   *)
(* recovery run at daemon start, the per-segment processor and the         *)
(* enqueue scanner, over the catalogue tables segment_summaries,           *)
(* segment_entities and characters.                                        *)
(*                                                                         *)
(* Every store call (one HTTP request to the catalogue) is one atomic      *)
(* step; nothing spans two store calls.                                    *)
(***************************************************************************)
EXTENDS Integers, Sequences, FiniteSets, TLC

----------------------------------------------------------------------------
(* Bounds of the model *)

MaxJobs == 3            \* rows the pipeline_jobs table may hold
NumSegments == 2        \* segments of the catalogue

(* Program constants *)

MAX_RETRIES_PER_JOB == 2    \* main.py:26 (default of the environment setting)
NUM_WORKERS == 2            \* main.py:27 (default of the environment setting)
MAX_JOBS_PER_RESTART == 1   \* main.py:28, run with MAX_JOBS_PER_RESTART=1
StaleMaxAttempts == 3       \* supabase_client.py:380, reset_stale_jobs(max_attempts=3)
StoreMaxRetries == 3        \* supabase_client.py:16, SupabaseClient(max_retries=3)
MODEL_MAX_RETRIES == 2      \* qwen_client.py:19 (default of the environment setting)

Segments == 1..NumSegments
Procs == {"A", "B"}                     \* daemon processes (hosts)
Workers == Procs \X (1..NUM_WORKERS)    \* <<process, thread of its pool>>
ProcOf(w) == w[1]

\* The process of `--segment-id <id> --no-write`: run_dry_run builds
\* NLPPackWorker(dry_run=True) and runs on the main thread.
DryProc == "D"
DryWorker == <<DryProc, 1>>
AllWorkers == Workers \cup {DryWorker}

CharNames == {"Arthur Leywin"}

----------------------------------------------------------------------------
(* State *)

VARIABLES
  jobs,          \* pipeline_jobs, in created_at order
  segKind,       \* per segment: what the catalogue holds for it
  summaries,     \* segments with a segment_summaries row
  entities,      \* segments with a segment_entities row
  characters,    \* the characters table of one work, rows in insertion order
  th,            \* per pool thread: position in run_once and its locals
  dpc,           \* per daemon: position in main / run_forever
  jobsProcessed, \* per daemon: NLPPackWorker._jobs_processed
  staleSel,      \* per daemon: rows of reset_stale_jobs' select still to update
  scan,          \* per run of the enqueue scanner: position, remaining candidates, force
  staleAtStart,  \* history: per daemon, the stale running jobs its select saw
  recovered,     \* history: per daemon, the jobs its recovery wrote failed
  claimedBy,     \* history: per daemon, the jobs poll_next_job handed to it
  rewritten,     \* history: outputs written over an existing row by a force=false job
  modelFailed,   \* history: some model call returned no valid output
  mg,            \* per caller of the character step: position and locals
  mergeLog,      \* history: the <<update, segment number>> of the calls completed
  charsAtStart,  \* history: the characters table of the initial state
  norm,          \* a call of validate_and_normalize: its argument and its result
  mcall          \* a call of QwenClient._call_model: its caller and its loop

vars == <<jobs, segKind, summaries, entities, characters, th, dpc, jobsProcessed,
          staleSel, scan, staleAtStart, recovered, claimedBy, rewritten, modelFailed,
          mg, mergeLog, charsAtStart, norm, mcall>>

\* What no step of a worker, a daemon or a scanner changes.
mergeVars == <<mg, mergeLog, charsAtStart, norm, mcall>>

store == <<summaries, entities, characters>>
daemonVars == <<dpc, jobsProcessed, staleSel, staleAtStart, recovered>>

----------------------------------------------------------------------------
(* The catalogue: segments, editions, assets *)

\* What a segment is in the catalogue: its edition's media type and the asset
\* types linked to it; "missing" is a segment id with no segments row.
SegKinds == {"novel_html", "novel_none", "manhwa_image", "manhwa_ocr", "anime_sub", "missing"}

MediaOf(k) ==
  CASE k \in {"novel_html", "novel_none"} -> "novel"
    [] k \in {"manhwa_image", "manhwa_ocr"} -> "manhwa"
    [] k = "anime_sub" -> "anime"
    [] OTHER -> "none"

AssetsOf(k) ==
  CASE k = "novel_html" -> {"raw_html"}
    [] k = "manhwa_image" -> {"raw_image"}
    [] k = "manhwa_ocr" -> {"raw_image", "ocr_json"}
    [] k = "anime_sub" -> {"raw_subtitle"}
    [] OTHER -> {}

HasSourceTextAlways(k) == TRUE

\* extract_source_text: the asset type the processor fetches for a media type;
\* no such asset gives no text.
HasSourceText(k) ==
  CASE MediaOf(k) = "anime" -> "raw_subtitle" \in AssetsOf(k)
    [] MediaOf(k) = "novel" -> AssetsOf(k) \cap {"raw_html", "cleaned_text"} # {}
    [] MediaOf(k) = "manhwa" -> "ocr_json" \in AssetsOf(k)
    [] OTHER -> FALSE

\* get_segments_missing_nlp, fallback query: the raw asset the scanner requires.
HasRawAsset(k) ==
  CASE MediaOf(k) = "novel" -> AssetsOf(k) \cap {"raw_html", "cleaned_text"} # {}
    [] MediaOf(k) = "manhwa" -> "raw_image" \in AssetsOf(k)
    [] MediaOf(k) = "anime" -> "raw_subtitle" \in AssetsOf(k)
    [] OTHER -> FALSE

----------------------------------------------------------------------------
(* pipeline_jobs rows *)

JobIds == 1..Len(jobs)

NewJob(seg, force, origin) ==
  [seg |-> seg, force |-> force, status |-> "queued", attempt |-> 0,
   stale |-> FALSE, error |-> "none", output |-> "none", origin |-> origin,
   marks |-> 0]    \* history: the calls of set_job_running made on the row

\* set_job_running with the sign of the increment slipped.
RunningAttemptDecrement(attempt) == attempt - 1

\* set_job_running writes the polled attempt plus one.
RunningAttempt(attempt) == attempt + 1

SetJobRunning(j, attempt) ==
  jobs' = [jobs EXCEPT ![j].status = "running",
                       ![j].stale = FALSE,
                       ![j].attempt = RunningAttempt(attempt),
                       ![j].marks = @ + 1]

SetJobSuccess(j, output) ==
  jobs' = [jobs EXCEPT ![j].status = "success", ![j].output = output]

SetJobFailed(j, error) ==
  jobs' = [jobs EXCEPT ![j].status = "failed", ![j].error = error]

QueuedIdsNone == {}

\* poll_next_job: the oldest queued row, or none (0). Both the exec_sql call and
\* the fallback query are one request: the row lock of FOR UPDATE SKIP LOCKED
\* ends with the request, and the row stays queued.
QueuedIds == {j \in JobIds : jobs[j].status = "queued"}
PollNextJob == IF QueuedIds = {} THEN 0
               ELSE CHOOSE j \in QueuedIds : \A k \in QueuedIds : j <= k

----------------------------------------------------------------------------
(* Calls from the processor into SupabaseClient: a Python call binds when every
   keyword passed names a parameter and every parameter without a default is
   passed; otherwise it raises TypeError before any request is sent. *)

Binds(passed, params, required) == passed \subseteq params /\ required \subseteq passed

\* main.py 216-225 against supabase_client.py 218-226: beats, key_dialogue and
\* tone are passed and are no parameters; edition_id is required and not passed.
SummaryCallPassed == {"segment_id", "summary", "summary_short", "events", "beats",
                      "key_dialogue", "tone", "model_version"}
UpsertSummaryParams == {"segment_id", "edition_id", "summary", "summary_short",
                        "events", "model_version"}
\* upsert_segment_summary taking whatever keywords it is passed.
UpsertSummaryBindsAny == TRUE

UpsertSummaryBinds == Binds(SummaryCallPassed, UpsertSummaryParams, UpsertSummaryParams)

\* main.py 235-239 against supabase_client.py 250-256: edition_id is not passed.
EntitiesCallPassed == {"segment_id", "entities", "model_version"}
UpsertEntitiesParams == {"segment_id", "edition_id", "entities", "model_version"}
UpsertEntitiesBinds == Binds(EntitiesCallPassed, UpsertEntitiesParams, UpsertEntitiesParams)

\* character_merge.py 353-360 against supabase_client.py 284-291: aliases is
\* passed and is no parameter.
CharacterCallPassed == {"work_id", "name", "aliases", "character_facts",
                        "description", "model_version"}
UpsertCharacterParams == {"work_id", "name", "character_facts", "description",
                          "model_version"}
UpsertCharacterBinds == Binds(CharacterCallPassed, UpsertCharacterParams, UpsertCharacterParams)

----------------------------------------------------------------------------
(* character_merge.py: normalization and the merge of aliases and facts *)

MaxFacts == 4           \* character_facts entries a row may reach
MaxMerges == 3          \* calls of the character step followed

\* The strings of this model and what normalize_text makes of them: NFKC,
\* lower(), strip(), runs of whitespace to one space, punctuation removed.
Blank == " "
NormalizeText(s) ==
  CASE s \in {"Arthur", "arthur"} -> "arthur"
    [] s \in {"Art", "ART", " Art"} -> "art"
    [] s = "Arthur Leywin" -> "arthur leywin"
    [] s \in {"protagonist", "Protagonist."} -> "protagonist"
    [] s = "learns magic" -> "learns magic"
    [] OTHER -> ""

\* normalize_alias: normalize_text, then quotes removed and strip().
NormalizeAlias(s) == NormalizeText(s)

\* str.strip()
Strip(s) == CASE s = " Art" -> "Art" [] s = Blank -> "" [] OTHER -> s

ToSet(q) == {q[i] : i \in 1..Len(q)}

\* find_existing_character 122-128: all_search_terms.
SearchTerms(name, aliases) ==
  {NormalizeAlias(name)} \cup ({NormalizeAlias(a) : a \in ToSet(aliases)} \ {""})

\* find_existing_character 130-140: the test made on one row.
RowMatches(row, terms) ==
  \/ NormalizeAlias(row.name) \in terms
  \/ \E a \in ToSet(row.aliases) : NormalizeAlias(a) \in terms

\* find_existing_character returning the last row that matches.
FindLastCharacter(work_characters, name, aliases) ==
  LET hits == {i \in 1..Len(work_characters) :
                 RowMatches(work_characters[i], SearchTerms(name, aliases))}
  IN IF hits = {} THEN 0 ELSE CHOOSE i \in hits : \A k \in hits : i >= k

\* find_existing_character: the first row whose normalized name, or one of
\* whose normalized aliases, is among the normalized name and aliases of the
\* update; 0 for None.
FindExistingCharacter(work_characters, name, aliases) ==
  LET hits == {i \in 1..Len(work_characters) :
                 RowMatches(work_characters[i], SearchTerms(name, aliases))}
  IN IF hits = {} THEN 0 ELSE CHOOSE i \in hits : \A k \in hits : i <= k

\* merge_aliases with the canonical name left out of the seen set.
SeenAtStartEmpty(canonical_name) == {}

\* merge_aliases 153-158: the seen set starts with the normalized canonical name.
SeenAtStart(canonical_name) ==
  IF NormalizeAlias(canonical_name) # "" THEN {NormalizeAlias(canonical_name)} ELSE {}

\* merge_aliases 160-172: the loop over existing + new.
RECURSIVE MergeAliasesFrom(_, _, _)
MergeAliasesFrom(rest, seen, result) ==
  IF rest = <<>> THEN result
  ELSE LET alias == Head(rest)
           normalized == NormalizeAlias(alias)
       IN IF Strip(alias) = "" \/ normalized = "" \/ normalized \in seen
          THEN MergeAliasesFrom(Tail(rest), seen, result)
          ELSE MergeAliasesFrom(Tail(rest), seen \cup {normalized},
                                Append(result, Strip(alias)))

MergeAliases(existing, new, canonical_name) ==
  MergeAliasesFrom(existing \o new, SeenAtStart(canonical_name), <<>>)

\* process_character_updates 316-323: the facts of the update as stored
\* entries (the source field follows from the segment number).
RECURSIVE NewFacts(_, _)
NewFacts(facts, segment_number) ==
  IF facts = <<>> THEN <<>>
  ELSE IF Strip(Head(facts)) = "" THEN NewFacts(Tail(facts), segment_number)
  ELSE <<[fact |-> Strip(Head(facts)), segment |-> segment_number]>>
       \o NewFacts(Tail(facts), segment_number)

\* process_character_updates 335-336: "simple append".
MergedFacts(existing_facts, new_facts) == existing_facts \o new_facts

\* normalize_fact_for_dedupe: normalized text and the chapter or segment.
FactKey(f) == <<NormalizeText(f.fact), f.segment>>

\* process_character_updates 338-343: the columns update_character writes.
MergedRow(existing, upd, segment_number) ==
  [existing EXCEPT !.aliases = MergeAliases(existing.aliases, upd.aliases, existing.name),
                   !.character_facts = MergedFacts(existing.character_facts,
                                                   NewFacts(upd.facts, segment_number)),
                   !.description = ""]

----------------------------------------------------------------------------
(* A pool thread running run_once *)

\* No transient error met while handling the job.
NoFault == [call |-> "none", errors |-> 0]

Idle == [pc |-> "done", job |-> 0, attempt |-> 0, force |-> FALSE, seg |-> 0,
         exSum |-> FALSE, exEnt |-> FALSE, upd |-> FALSE, out |-> "none",
         modelCalls |-> 0, ret |-> "unset", wrote |-> {}, fault |-> NoFault]

\* What the model answers to a call: a response that validates, with or
\* without a character_updates entry; text that is no JSON; JSON whose
\* segment_summary.summary is empty; JSON that NLPOutputModel rejects; or no
\* content (the call raised, or _repair_json returned None).
ModelResponses == {"valid_chars", "valid_nochars", "bad_json", "empty_summary",
                   "bad_schema", "none"}

Parses(r) == r \notin {"bad_json", "none"}

\* validate_and_normalize: is_valid, and the normalized dict it returns with it
\* ({} when model_validate raises).
IsValid(r) == r \in {"valid_chars", "valid_nochars"}
Normalized(r) == IF r = "bad_schema" THEN "empty_dict" ELSE r

\* process_text 265-328 for the first response r0 and the responses r1, r2 of
\* the repair calls in the order they are made: what it returns ("none" for
\* None) and the number of _repair_json calls.
ProcessText(r0, r1, r2) ==
  IF r0 = "none" THEN [ret |-> "none", repairs |-> 0]
  ELSE IF r0 = "bad_json" /\ ~Parses(r1) THEN [ret |-> "none", repairs |-> 1]
  ELSE LET parseRepaired == (r0 = "bad_json")
           result == IF parseRepaired THEN r1 ELSE r0
           repaired == IF parseRepaired THEN r2 ELSE r1
           repairs == IF parseRepaired THEN 1 ELSE 0
       IN IF IsValid(result) THEN [ret |-> Normalized(result), repairs |-> repairs]
          ELSE LET normalized == IF Parses(repaired) THEN Normalized(repaired)
                                 ELSE Normalized(result)
                   repair_succeeded == parseRepaired \/ (Parses(repaired) /\ IsValid(repaired))
               IN [ret |-> IF repair_succeeded THEN normalized ELSE "none",
                   repairs |-> repairs + 1]

\* The responses of the calls one process_text makes: the first call and, in
\* order, its repair calls; a call that is not made has no response.
ModelRuns ==
  {q \in ModelResponses \X ModelResponses \X ModelResponses :
     \A k \in 2..3 : k > 1 + ProcessText(q[1], q[2], q[3]).repairs => q[k] = "none"}

\* process_job 205: "if not model_output", None and {} alike.
NoModelOutput(ret) == ret \in {"none", "empty_dict"}

NovelOnlyOff(media_type) == TRUE

\* process_job 245 (and process_character_updates 284): the character step
\* is for novel segments.
NovelOnly(media_type) == media_type = "novel"

DryRunOff(w) == FALSE

\* NLPPackWorker.dry_run of the process the thread belongs to.
DryRun(w) == ProcOf(w) = DryProc

\* process_job's skip test answering yes whatever exists.
SkipExistingAlways(allExist, force) == TRUE

\* process_job's skip test with the negation of force lost.
SkipExistingForced(allExist, force) == allExist /\ force

\* process_job: all outputs exist and the job does not force.
SkipExisting(allExist, force) == allExist /\ ~force

\* run_once: the attempt cap, on the attempt of the polled row.
ExceededRetries(attempt) == attempt >= MAX_RETRIES_PER_JOB

\* run_once 302-306: poll under the poll lock; the lock is released on return.
Poll(w) ==
  /\ th[w].pc = "poll"
  /\ LET j == PollNextJob IN
       IF j = 0
       THEN /\ th' = [th EXCEPT ![w] = Idle]
            /\ UNCHANGED claimedBy
       ELSE /\ th' = [th EXCEPT ![w] = [Idle EXCEPT !.pc = "claimed", !.job = j,
                                           !.attempt = jobs[j].attempt,
                                           !.force = jobs[j].force,
                                           !.seg = jobs[j].seg]]
            /\ claimedBy' = [claimedBy EXCEPT ![ProcOf(w)] = @ \cup {j}]
  /\ UNCHANGED <<jobs, segKind, mergeVars, store, daemonVars, scan, rewritten, modelFailed>>

\* run_once 308-319: the attempt cap, else set_job_running. The request of
\* set_job_running may fail (ok = FALSE): the call raises outside the try of
\* run_once, the row is not changed and the exception ends the future.
Claim(w, ok) ==
  /\ th[w].pc = "claimed"
  /\ IF ExceededRetries(th[w].attempt)
     THEN /\ SetJobFailed(th[w].job, "exceeded_max_retries")
          /\ th' = [th EXCEPT ![w] = Idle]
     ELSE IF ok
     THEN /\ SetJobRunning(th[w].job, th[w].attempt)
          /\ th' = [th EXCEPT ![w].pc = "process"]
     ELSE /\ th' = [th EXCEPT ![w].pc = "raised"]
          /\ UNCHANGED jobs
  /\ UNCHANGED <<segKind, mergeVars, store, daemonVars, scan, claimedBy, rewritten, modelFailed>>

\* process_job 154-209: load the segment, check the existing outputs, extract
\* the source text and call the model.
Process(w, run) ==
  /\ th[w].pc = "process"
  /\ LET s == th[w].seg
         k == segKind[s]
         exS == s \in summaries
         exE == s \in entities
         pt == ProcessText(run[1], run[2], run[3])
     IN
       IF k = "missing" THEN
         /\ th' = [th EXCEPT ![w].pc = "finish_fail"]
         /\ UNCHANGED <<jobs, modelFailed>>
       ELSE IF SkipExisting(exS /\ exE, th[w].force) THEN
         /\ th' = [th EXCEPT ![w].pc = "finish_ok", ![w].out = "skipped",
                             ![w].exSum = exS, ![w].exEnt = exE]
         /\ UNCHANGED <<jobs, modelFailed>>
       ELSE IF ~HasSourceText(k) THEN
         /\ th' = [th EXCEPT ![w].pc = "finish_fail", ![w].exSum = exS, ![w].exEnt = exE]
         /\ UNCHANGED <<jobs, modelFailed>>
       ELSE IF NoModelOutput(pt.ret) THEN
         /\ th' = [th EXCEPT ![w].pc = "finish_fail", ![w].exSum = exS, ![w].exEnt = exE,
                             ![w].modelCalls = 1 + pt.repairs, ![w].ret = pt.ret]
         /\ modelFailed' = TRUE
         /\ UNCHANGED jobs
       ELSE
         /\ th' = [th EXCEPT ![w].pc = "summary", ![w].exSum = exS, ![w].exEnt = exE,
                             ![w].modelCalls = 1 + pt.repairs, ![w].ret = pt.ret,
                             ![w].out = "processed",
                             ![w].upd = (pt.ret = "valid_chars")]
         /\ modelFailed' = (modelFailed \/ ~IsValid(run[1]))
         /\ UNCHANGED jobs
  /\ UNCHANGED <<segKind, mergeVars, store, daemonVars, scan, claimedBy, rewritten>>

\* process_job 211-269: the three materializations, one store call each, or
\* in dry-run one log line each.
Materialize(w) ==
  /\ th[w].pc \in {"summary", "entities", "characters"}
  /\ LET s == th[w].seg IN
     CASE th[w].pc = "summary" ->
            IF ~th[w].exSum \/ th[w].force
            THEN IF DryRun(w)
                 THEN /\ th' = [th EXCEPT ![w].pc = "entities"]
                      /\ UNCHANGED <<store, rewritten>>
                 ELSE IF UpsertSummaryBinds
                 THEN /\ summaries' = summaries \cup {s}
                      /\ rewritten' = IF s \in summaries /\ ~th[w].force
                                      THEN rewritten \cup {<<"segment_summaries", s>>}
                                      ELSE rewritten
                      /\ th' = [th EXCEPT ![w].pc = "entities",
                                          ![w].wrote = @ \cup {"segment_summaries"}]
                      /\ UNCHANGED <<entities, characters>>
                 ELSE /\ th' = [th EXCEPT ![w].pc = "finish_fail"]
                      /\ UNCHANGED <<store, rewritten>>
            ELSE /\ th' = [th EXCEPT ![w].pc = "entities"]
                 /\ UNCHANGED <<store, rewritten>>
       [] th[w].pc = "entities" ->
            IF ~th[w].exEnt \/ th[w].force
            THEN IF DryRun(w)
                 THEN /\ th' = [th EXCEPT ![w].pc = "characters"]
                      /\ UNCHANGED <<store, rewritten>>
                 ELSE IF UpsertEntitiesBinds
                 THEN /\ entities' = entities \cup {s}
                      /\ rewritten' = IF s \in entities /\ ~th[w].force
                                      THEN rewritten \cup {<<"segment_entities", s>>}
                                      ELSE rewritten
                      /\ th' = [th EXCEPT ![w].pc = "characters",
                                          ![w].wrote = @ \cup {"segment_entities"}]
                      /\ UNCHANGED <<summaries, characters>>
                 ELSE /\ th' = [th EXCEPT ![w].pc = "finish_fail"]
                      /\ UNCHANGED <<store, rewritten>>
            ELSE /\ th' = [th EXCEPT ![w].pc = "characters"]
                 /\ UNCHANGED <<store, rewritten>>
       [] OTHER ->
            \* 244-266: the character step, here in one piece; its interleavings
            \* are followed by MergeLoad and MergeApply.
            IF NovelOnly(MediaOf(segKind[s])) /\ th[w].upd
            THEN LET u == [name |-> CHOOSE n \in CharNames : TRUE,
                           aliases |-> <<"Art">>, facts |-> <<"protagonist">>]
                     i == FindExistingCharacter(characters, u.name, u.aliases)
                 IN
                 IF DryRun(w)
                 THEN /\ th' = [th EXCEPT ![w].pc = "finish_ok"]
                      /\ UNCHANGED <<store, rewritten>>
                 ELSE IF i # 0
                 THEN /\ characters' = [characters EXCEPT ![i] = MergedRow(@, u, s)]
                      /\ th' = [th EXCEPT ![w].pc = "finish_ok",
                                          ![w].wrote = @ \cup {"characters"}]
                      /\ UNCHANGED <<summaries, entities, rewritten>>
                 ELSE IF UpsertCharacterBinds
                 THEN /\ characters' = Append(characters,
                                              [name |-> u.name, aliases |-> <<>>,
                                               character_facts |-> NewFacts(u.facts, s),
                                               description |-> ""])
                      /\ th' = [th EXCEPT ![w].pc = "finish_ok",
                                          ![w].wrote = @ \cup {"characters"}]
                      /\ UNCHANGED <<summaries, entities, rewritten>>
                 ELSE /\ th' = [th EXCEPT ![w].pc = "finish_fail"]
                      /\ UNCHANGED <<store, rewritten>>
            ELSE /\ th' = [th EXCEPT ![w].pc = "finish_ok"]
                 /\ UNCHANGED <<store, rewritten>>
  /\ UNCHANGED <<jobs, segKind, mergeVars, daemonVars, scan, claimedBy, modelFailed>>

\* run_once 321-341: set_job_success and the counter, or the except branch.
Finish(w) ==
  /\ th[w].pc \in {"finish_ok", "finish_fail"}
  /\ IF th[w].pc = "finish_ok"
     THEN /\ SetJobSuccess(th[w].job, th[w].out)
          /\ jobsProcessed' = [jobsProcessed EXCEPT ![ProcOf(w)] = @ + 1]
     ELSE /\ SetJobFailed(th[w].job, "exception")
          /\ UNCHANGED jobsProcessed
  /\ th' = [th EXCEPT ![w] = Idle]
  /\ UNCHANGED <<segKind, mergeVars, store, dpc, staleSel, staleAtStart, recovered, scan,
                 claimedBy, rewritten, modelFailed>>

----------------------------------------------------------------------------
(* qwen_client.py: _call_model, the retry loop of the first model call *)

\* What one chat.completions.create of the loop does: it returns content, or
\* it raises an exception of one of these classes (status_code of an APIError
\* that carries one; 0 where the exception has none).
Returned == [class |-> "none", status |-> 0]
CallOutcomes ==
  {Returned}
  \cup {[class |-> c, status |-> 0] :
          c \in {"APIConnectionError", "APITimeoutError", "RateLimitError", "Exception"}}
  \cup {[class |-> "APIError", status |-> st] : st \in {0, 400, 429, 500, 503}}

ShouldRetryAlways(error) == TRUE

\* _should_retry 130-139.
ShouldRetry(error) ==
  CASE error.class \in {"APIConnectionError", "APITimeoutError"} -> TRUE
    [] error.class = "RateLimitError" -> TRUE
    [] error.class = "APIError" -> error.status >= 500 \/ error.status = 429
    [] OTHER -> FALSE

\* No call of _call_model in progress; caller is the thread that made the
\* call, job the job it handles, attempt the loop variable, tries the calls
\* of create made, last what the latest of them did.
CallIdle == [pc |-> "idle", caller |-> <<"none", 0>>, job |-> 0, attempt |-> 0,
             retry_count |-> 0, tries |-> 0, last |-> Returned]

\* process_job reaches process_text: the segment is there, the job is not
\* skipped and the source text was extracted.
ReachesModel(w) ==
  LET s == th[w].seg IN
    /\ th[w].pc = "process"
    /\ segKind[s] # "missing"
    /\ ~SkipExisting(s \in summaries /\ s \in entities, th[w].force)
    /\ HasSourceText(segKind[s])

\* The latest call was made for the job the thread w is handling now.
CalledFor(w) == mcall.caller = w /\ mcall.job = th[w].job /\ th[w].pc = "process"

\* process_text 265: _call_model is entered, attempt 0 of the loop is next.
CallModelStart(w) ==
  /\ ReachesModel(w)
  /\ mcall.pc \in {"idle", "returned", "raised"}
  /\ ~CalledFor(w)
  /\ mcall.caller \in Workers => ~CalledFor(mcall.caller)
  /\ mcall' = [CallIdle EXCEPT !.pc = "calling", !.caller = w, !.job = th[w].job]
  /\ UNCHANGED <<jobs, segKind, th, store, daemonVars, scan, claimedBy, rewritten,
                 modelFailed, mg, mergeLog, charsAtStart, norm>>

\* _call_model 157-193: one pass of the loop over range(max_retries + 1).
CallModelAttempt(outcome) ==
  /\ mcall.pc = "calling"
  /\ mcall.attempt <= MODEL_MAX_RETRIES
  /\ LET retry == outcome # Returned /\ ShouldRetry(outcome)
                    /\ mcall.attempt < MODEL_MAX_RETRIES
     IN mcall' = [mcall EXCEPT
                    !.tries = @ + 1,
                    !.last = outcome,
                    !.pc = IF outcome = Returned THEN "returned"
                           ELSE IF retry THEN "calling" ELSE "raised",
                    !.attempt = IF retry THEN @ + 1 ELSE @,
                    !.retry_count = IF retry THEN @ + 1 ELSE @]
  /\ UNCHANGED <<jobs, segKind, th, store, daemonVars, scan, claimedBy, rewritten,
                 modelFailed, mg, mergeLog, charsAtStart, norm>>

\* process_text 264-273 and the rest of process_job: with the content the
\* call returned, or with None when the call raised.
ProcessCalled(w, run) ==
  /\ CalledFor(w)
  /\ mcall.pc \in {"returned", "raised"}
  /\ (run[1] = "none") <=> (mcall.pc = "raised")
  /\ Process(w, run)

\* process_job for a job that ends before process_text.
ProcessUncalled(w) ==
  /\ th[w].pc = "process"
  /\ ~ReachesModel(w)
  /\ Process(w, <<"none", "none", "none">>)

----------------------------------------------------------------------------
(* Transient connection errors of store calls *)

\* The store calls made through _execute_with_retry (supabase_client.py
\* 131-165); every other method sends its request once.
RetriedCalls == {"get_segment_with_edition", "get_segment_assets", "get_work_title"}

\* The store calls of process_job before the model call, and those of run_once
\* that end a job.
ProcessCalls == {"get_segment_with_edition", "get_segment_summary", "get_segment_entities",
                 "get_segment_assets", "get_work_title"}
FinishCalls == {"set_job_success", "set_job_failed"}

Retries(call) == call \in RetriedCalls

\* A call whose request meets `errors` connection errors in a row returns when
\* it is retried and the errors are fewer than max_retries; else it raises.
Survives(call, errors) == Retries(call) /\ errors < StoreMaxRetries

\* One store call of a thread meets connection errors. A call that raises in
\* process_job, or set_job_success, is caught by the except branch of
\* run_once; set_job_failed raises out of run_once, the row left as it is.
Fault(w, call, errors) ==
  /\ th[w].fault = NoFault
  /\ \/ th[w].pc = "process" /\ call \in ProcessCalls
     \/ th[w].pc = "finish_ok" /\ call = "set_job_success"
     \/ th[w].pc = "finish_fail" /\ call = "set_job_failed"
  /\ th' = [th EXCEPT ![w].fault = [call |-> call, errors |-> errors],
                      ![w].pc = IF Survives(call, errors) THEN @
                                ELSE IF call = "set_job_failed" THEN "raised"
                                ELSE "finish_fail"]
  /\ UNCHANGED <<jobs, segKind, mergeVars, store, daemonVars, scan, claimedBy, rewritten,
                 modelFailed>>

----------------------------------------------------------------------------
(* The dry-run process: main with --segment-id *)

\* main 466-470, run_dry_run 402-412, process_segment_direct 273-288:
\* process_job on a job that is in no table, with force.
RunDryRun(s) ==
  /\ th[DryWorker].pc = "done"
  /\ th' = [th EXCEPT ![DryWorker] = [Idle EXCEPT !.pc = "process", !.seg = s,
                                                  !.force = TRUE]]
  /\ UNCHANGED <<jobs, segKind, mergeVars, store, daemonVars, scan, claimedBy, rewritten,
                 modelFailed>>

\* run_dry_run 413-455: the result is printed, or the exception ends the
\* process with exit code 1.
DryReturn(w) ==
  /\ ProcOf(w) = DryProc
  /\ th[w].pc \in {"finish_ok", "finish_fail"}
  /\ th' = [th EXCEPT ![w] = Idle]
  /\ UNCHANGED <<jobs, segKind, mergeVars, store, daemonVars, scan, claimedBy, rewritten,
                 modelFailed>>

\* run_once 297-299 and run_forever 345-347 called on the dry-run worker:
\* each returns before any store call.
DryRunOnce(w, call) ==
  /\ ProcOf(w) = DryProc
  /\ th[w].pc = "done"
  /\ th[w].out # call
  /\ th' = [th EXCEPT ![w] = IF DryRun(w) THEN [Idle EXCEPT !.out = call]
                              ELSE [Idle EXCEPT !.pc = "poll"]]
  /\ UNCHANGED <<jobs, segKind, mergeVars, store, daemonVars, scan, claimedBy, rewritten,
                 modelFailed>>

----------------------------------------------------------------------------
(* A daemon: main, then run_forever with its pool *)

ThreadsOf(p) == {w \in Workers : ProcOf(w) = p}

\* reset_stale_jobs putting a row below max_attempts back in the queue, as the
\* comment of its second branch says.
StaleStatusRequeue(attempt) == IF attempt >= StaleMaxAttempts THEN "failed" ELSE "queued"

\* reset_stale_jobs 418-433: what the update writes for a selected row; both
\* branches write failed, they differ in the error text.
StaleStatus(attempt) == "failed"
StaleError(attempt) == IF attempt >= StaleMaxAttempts THEN "timeout_max_retries"
                       ELSE "timeout_will_retry"
TimeoutErrors == {"timeout_max_retries", "timeout_will_retry"}

\* main 493-497, reset_stale_jobs 400-411: the select of the running rows whose
\* started_at is older than the timeout, with the attempt each row had.
DaemonStart(p) ==
  /\ dpc[p] = "off"
  /\ LET sel == {j \in JobIds : jobs[j].status = "running" /\ jobs[j].stale} IN
       /\ staleSel' = [staleSel EXCEPT ![p] = {<<j, jobs[j].attempt>> : j \in sel}]
       /\ staleAtStart' = [staleAtStart EXCEPT ![p] = sel]
       /\ dpc' = [dpc EXCEPT ![p] = IF sel = {} THEN "loop" ELSE "recover"]
  /\ UNCHANGED <<jobs, segKind, mergeVars, store, th, jobsProcessed, scan, recovered, claimedBy,
                 rewritten, modelFailed>>

\* reset_stale_jobs 414-435: one update of the loop, by id.
RecoverOne(p, row) ==
  /\ dpc[p] = "recover"
  /\ row \in staleSel[p]
  /\ LET j == row[1]
         st == StaleStatus(row[2])
         err == StaleError(row[2])
     IN
       /\ jobs' = [jobs EXCEPT ![j].status = st, ![j].error = err]
       /\ recovered' = [recovered EXCEPT ![p] =
                          IF st = "failed" /\ err \in TimeoutErrors THEN @ \cup {j} ELSE @]
  /\ staleSel' = [staleSel EXCEPT ![p] = @ \ {row}]
  /\ dpc' = [dpc EXCEPT ![p] = IF staleSel[p] = {row} THEN "loop" ELSE "recover"]
  /\ UNCHANGED <<segKind, mergeVars, store, th, jobsProcessed, scan, staleAtStart, claimedBy,
                 rewritten, modelFailed>>

\* run_forever 371-393: with every future of the last round returned (or ended
\* by an exception, which the loop logs at future.result()), exit once
\* the counter has reached MAX_JOBS_PER_RESTART, else submit NUM_WORKERS run_once.
RestartDue(p) == jobsProcessed[p] >= MAX_JOBS_PER_RESTART

Dispatch(p) ==
  /\ dpc[p] = "loop"
  /\ \A w \in ThreadsOf(p) : th[w].pc \in {"done", "raised"}
  /\ IF RestartDue(p)
     THEN /\ dpc' = [dpc EXCEPT ![p] = "exited"]
          /\ UNCHANGED th
     ELSE /\ th' = [w \in AllWorkers |->
                      IF ProcOf(w) = p THEN [Idle EXCEPT !.pc = "poll"] ELSE th[w]]
          /\ UNCHANGED dpc
  /\ UNCHANGED <<jobs, segKind, mergeVars, store, jobsProcessed, staleSel, scan, staleAtStart,
                 recovered, claimedBy, rewritten, modelFailed>>

\* Time passes: the started_at of a running job falls behind the timeout. Only
\* the select of a starting daemon reads started_at, so time is followed only
\* while a daemon has yet to start.
Age(j) ==
  /\ j \in JobIds
  /\ jobs[j].status = "running"
  /\ ~jobs[j].stale
  /\ \E p \in Procs : dpc[p] = "off"
  /\ jobs' = [jobs EXCEPT ![j].stale = TRUE]
  /\ UNCHANGED <<segKind, mergeVars, store, th, daemonVars, scan, claimedBy, rewritten, modelFailed>>

----------------------------------------------------------------------------
(* The enqueue scanner: enqueue_jobs *)

RECURSIVE Ascending(_)
Ascending(S) == IF S = {} THEN <<>>
                ELSE LET m == CHOOSE x \in S : \A y \in S : x <= y
                     IN <<m>> \o Ascending(S \ {m})

MissingOutput(s) == segKind[s] # "missing" /\ ~(s \in summaries /\ s \in entities)

\* get_segments_missing_nlp: the rows of the SQL query when the execute_sql
\* call answers with rows, else those of the fallback query, which also asks
\* for the raw asset of the media type.
SegmentsMissingNlp(rpc) ==
  LET sql == {s \in Segments : MissingOutput(s)}
      fallback == {s \in Segments : MissingOutput(s) /\ HasRawAsset(segKind[s])}
  IN IF rpc /\ sql # {} THEN sql ELSE fallback

\* check_pending_job over a pipeline_jobs table: a summarize job of the
\* segment that is queued or running.
CheckPendingIn(js, s) ==
  \E j \in 1..Len(js) : js[j].seg = s /\ js[j].status \in {"queued", "running"}

CheckPendingJob(s) == CheckPendingIn(jobs, s)

InsertsAlways(dry_run) == TRUE

\* enqueue_jobs 237-242: the insert is made unless dry_run.
Inserts(dry_run) == ~dry_run

\* enqueue_jobs 226-230: has_cleaned is a key no candidate row carries.
HasAll(s) == FALSE

\* Runs of enqueue.py that may be under way at the same time.
Scanners == {"s1", "s2"}

ScanIdle == [pc |-> "idle", cands |-> <<>>, force |-> FALSE, dry |-> FALSE]

\* enqueue_jobs 203-221: the candidate list, read once.
ScanStart(sc, force, rpc, dry_run) ==
  /\ scan[sc].pc = "idle"
  /\ Len(jobs) < MaxJobs
  /\ LET c == Ascending(SegmentsMissingNlp(rpc)) IN
       scan' = [scan EXCEPT ![sc] = IF c = <<>> THEN ScanIdle
                                    ELSE [pc |-> "check", cands |-> c,
                                          force |-> force, dry |-> dry_run]]
  /\ UNCHANGED <<jobs, segKind, mergeVars, store, th, daemonVars, claimedBy, rewritten, modelFailed>>

ScanNext(sc, rest) == IF rest = <<>> THEN ScanIdle
                      ELSE [scan[sc] EXCEPT !.pc = "check", !.cands = rest]

\* enqueue_jobs 223-240: the checks of the next candidate; in dry-run the
\* insert is replaced by a log line.
ScanCheck(sc) ==
  /\ scan[sc].pc = "check"
  /\ scan' = [scan EXCEPT ![sc] =
       IF HasAll(Head(scan[sc].cands)) \/ CheckPendingJob(Head(scan[sc].cands))
          \/ ~Inserts(scan[sc].dry)
       THEN ScanNext(sc, Tail(scan[sc].cands))
       ELSE [scan[sc] EXCEPT !.pc = "insert"]]
  /\ UNCHANGED <<jobs, segKind, mergeVars, store, th, daemonVars, claimedBy, rewritten, modelFailed>>

\* enqueue_jobs 242, enqueue_nlp_job: the insert of a queued job.
ScanInsert(sc) ==
  /\ scan[sc].pc = "insert"
  /\ Len(jobs) < MaxJobs
  /\ jobs' = Append(jobs, NewJob(Head(scan[sc].cands), scan[sc].force, "scanner"))
  /\ scan' = [scan EXCEPT ![sc] = ScanNext(sc, Tail(scan[sc].cands))]
  /\ UNCHANGED <<segKind, mergeVars, store, th, daemonVars, claimedBy, rewritten, modelFailed>>

NoStats == [enqueued |-> 0, skipped_pending |-> 0, skipped_complete |-> 0]

\* enqueue_jobs 185-246 as one uninterrupted run over the table js: the table
\* it leaves and the stats it returns.
RECURSIVE EnqueueLoop(_, _, _, _, _)
EnqueueLoop(js, cands, force, dry_run, stats) ==
  IF cands = <<>> THEN [jobs |-> js, stats |-> stats]
  ELSE LET s == Head(cands) IN
    IF HasAll(s)
    THEN EnqueueLoop(js, Tail(cands), force, dry_run,
                     [stats EXCEPT !.skipped_complete = @ + 1])
    ELSE IF CheckPendingIn(js, s)
    THEN EnqueueLoop(js, Tail(cands), force, dry_run,
                     [stats EXCEPT !.skipped_pending = @ + 1])
    ELSE EnqueueLoop(IF Inserts(dry_run) THEN Append(js, NewJob(s, force, "scanner")) ELSE js,
                     Tail(cands), force, dry_run,
                     [stats EXCEPT !.enqueued = @ + 1])

EnqueueJobs(js, cands, force, dry_run) == EnqueueLoop(js, cands, force, dry_run, NoStats)

----------------------------------------------------------------------------
(* The character step of process_job (main.py 255-266) and upsert_character,
   followed on their own: each caller is a worker that has reached the step,
   or a call of upsert_character with the arguments it declares. *)

Mergers == {"m1", "m2"}

\* character_updates entries as validate_and_normalize hands them on.
ArthurUpdate == [name |-> "Arthur", aliases |-> <<"Art">>, facts |-> <<"protagonist">>]
ArtUpdate == [name |-> "Art", aliases |-> <<"Arthur Leywin">>,
              facts |-> <<"learns magic", "protagonist">>]
LowerUpdate == [name |-> "arthur", aliases |-> <<"ART", "Arthur", " Art", Blank>>,
                facts |-> <<"Protagonist.">>]
CharUpdates == {ArthurUpdate, ArtUpdate, LowerUpdate}
NoUpdate == [name |-> "", aliases |-> <<>>, facts |-> <<>>]

\* upsert_character called as declared: name and character_facts.
UpsertNames == {"Arthur", "arthur"}
UpsertFacts == {<<"learns magic">>}

MgIdle == [pc |-> "idle", kind |-> "none", upd |-> NoUpdate, seg |-> 0, snap |-> <<>>,
           at |-> 0, hit |-> 0, found |-> 0, attempt |-> 0, last |-> FALSE]

MgFree(m) == mg[m].pc \in {"idle", "done", "failed"}
MgActive == {m \in Mergers : ~MgFree(m)}
LogEntry(m) == <<mg[m].kind, mg[m].upd, mg[m].seg, mg[m].at>>

runVars == <<jobs, segKind, summaries, entities, th, dpc, jobsProcessed, staleSel,
              scan, staleAtStart, recovered, claimedBy, rewritten, modelFailed>>

\* What no step of the character step changes.
mainVars == <<runVars, norm, mcall>>

\* main.py 245-255: for a novel segment get_work_characters, the caller's copy
\* of the table; for any other media type the step is passed over.
MergeLoad(m, u, n) ==
  /\ MgFree(m)
  /\ Len(mergeLog) + Cardinality(MgActive) < MaxMerges
  /\ \A i \in 1..Len(characters) :
       Len(characters[i].character_facts) + Len(u.facts) <= MaxFacts
  /\ mg' = [mg EXCEPT ![m] =
              IF NovelOnly(MediaOf(segKind[n]))
              THEN [MgIdle EXCEPT !.pc = "loaded", !.kind = "merge", !.upd = u,
                                  !.seg = n, !.snap = characters, !.at = Len(mergeLog)]
              ELSE [MgIdle EXCEPT !.pc = "done", !.kind = "skipped", !.upd = u, !.seg = n]]
  /\ UNCHANGED <<mainVars, characters, mergeLog, charsAtStart>>

\* process_character_updates 294-366 for one update: update_character on the
\* row found in the copy, else the call of upsert_character.
MergeApply(m) ==
  /\ mg[m].pc = "loaded"
  /\ LET u == mg[m].upd
         i == FindExistingCharacter(mg[m].snap, u.name, u.aliases)
     IN IF i # 0
        THEN LET merged == MergedRow(mg[m].snap[i], u, mg[m].seg) IN
             /\ characters' = [characters EXCEPT
                                 ![i].aliases = merged.aliases,
                                 ![i].character_facts = merged.character_facts,
                                 ![i].description = merged.description]
             /\ mg' = [mg EXCEPT ![m].pc = "done", ![m].hit = i]
             /\ mergeLog' = Append(mergeLog, LogEntry(m))
        ELSE IF UpsertCharacterBinds
        THEN /\ mg' = [mg EXCEPT ![m].pc = "upsert_select",
                                 ![m].upd = [u EXCEPT !.aliases = <<>>]]
             /\ UNCHANGED <<characters, mergeLog>>
        ELSE /\ mg' = [mg EXCEPT ![m].pc = "failed"]
             /\ mergeLog' = Append(mergeLog, LogEntry(m))
             /\ UNCHANGED characters
  /\ UNCHANGED <<mainVars, charsAtStart>>

\* upsert_character(work_id, name, character_facts, description, model_version)
UpsertCall(m, name, facts, n) ==
  /\ MgFree(m)
  /\ Len(mergeLog) + Cardinality(MgActive) < MaxMerges
  /\ mg' = [mg EXCEPT ![m] = [MgIdle EXCEPT !.pc = "upsert_select", !.kind = "upsert",
                                           !.upd = [name |-> name, aliases |-> <<>>,
                                                    facts |-> facts],
                                           !.seg = n, !.at = Len(mergeLog)]]
  /\ UNCHANGED <<mainVars, characters, mergeLog, charsAtStart>>

\* ilike on a name without wildcards, and the unique index on lower(name).
Lower(s) == CASE s \in {"Arthur", "arthur"} -> "arthur"
              [] s \in {"Art", "ART"} -> "art"
              [] s = "Arthur Leywin" -> "arthur leywin"
              [] OTHER -> s

NameHits(name) == {i \in 1..Len(characters) : Lower(characters[i].name) = Lower(name)}

\* upsert_character 311-313 (and 331-333): the select, limit 1.
UpsertSelect(m) ==
  /\ mg[m].pc = "upsert_select"
  /\ mg' = [mg EXCEPT ![m].pc = "upsert_write",
                      ![m].found = IF NameHits(mg[m].upd.name) = {} THEN 0
                                   ELSE CHOOSE i \in NameHits(mg[m].upd.name) :
                                          \A k \in NameHits(mg[m].upd.name) : i <= k]
  /\ UNCHANGED <<mainVars, characters, mergeLog, charsAtStart>>

\* upsert_character 315-339: update(data) of the row found, else insert(data);
\* the insert of a name the index already holds raises 23505, which is retried
\* max_retries - 1 times, then answered by one more select and update.
UpsertMaxRetries == 3

UpsertData(m) == [name |-> mg[m].upd.name,
                  character_facts |-> NewFacts(mg[m].upd.facts, mg[m].seg),
                  description |-> ""]

UpsertWrite(m) ==
  /\ mg[m].pc = "upsert_write"
  /\ LET data == UpsertData(m) IN
     IF mg[m].found # 0
     THEN /\ characters' = [characters EXCEPT
                              ![mg[m].found].name = data.name,
                              ![mg[m].found].character_facts = data.character_facts,
                              ![mg[m].found].description = data.description]
          /\ mg' = [mg EXCEPT ![m].pc = "done", ![m].hit = mg[m].found]
          /\ mergeLog' = Append(mergeLog, LogEntry(m))
     ELSE IF mg[m].last
     THEN /\ mg' = [mg EXCEPT ![m].pc = "failed"]
          /\ mergeLog' = Append(mergeLog, LogEntry(m))
          /\ UNCHANGED characters
     ELSE IF NameHits(data.name) # {}
     THEN /\ mg' = [mg EXCEPT ![m].pc = "upsert_select",
                              ![m].attempt = @ + 1,
                              ![m].last = (mg[m].attempt >= UpsertMaxRetries - 1)]
          /\ UNCHANGED <<characters, mergeLog>>
     ELSE /\ characters' = Append(characters,
                                  [name |-> data.name, aliases |-> <<>>,
                                   character_facts |-> data.character_facts,
                                   description |-> data.description])
          /\ mg' = [mg EXCEPT ![m].pc = "done", ![m].hit = Len(characters) + 1]
          /\ mergeLog' = Append(mergeLog, LogEntry(m))
  /\ UNCHANGED <<mainVars, charsAtStart>>

----------------------------------------------------------------------------
(* schema.py: validate_and_normalize on a parsed model output *)

EntityFields == {"characters", "locations", "items", "time_refs", "organizations",
                 "factions", "titles_ranks", "skills", "creatures", "concepts",
                 "relationships", "emotions", "keywords"}

\* JSON scalars a field may hold, by type and text.
Scalars == {[kind |-> "str", text |-> "Seoul"], [kind |-> "str", text |-> ""],
            [kind |-> "int", text |-> "7"], [kind |-> "int", text |-> "0"]}

\* Python truth value of a scalar.
Truthy(v) == IF v.kind = "int" THEN v.text # "0" ELSE v.text # ""

\* What a key of segment_entities holds: no such key, null, a scalar, a list.
Missing == [tag |-> "missing", items |-> <<>>]
Null == [tag |-> "null", items |-> <<>>]
ScalarValue(v) == [tag |-> "scalar", items |-> <<v>>]
ListValue(l) == [tag |-> "list", items |-> l]

FieldValues ==
  {Missing, Null} \cup {ScalarValue(v) : v \in Scalars}
  \cup {ListValue(<<>>), ListValue(<<[kind |-> "str", text |-> "Seoul"]>>)}

\* ensure_all_lists 105-109 for one field: the list the field holds afterwards.
Coerce(fv) ==
  IF fv.tag \in {"missing", "null"} THEN <<>>
  ELSE IF fv.tag = "list" THEN fv.items
  ELSE IF Truthy(fv.items[1]) THEN <<fv.items[1]>> ELSE <<>>

\* segment_summary.summary of the argument: a non-empty string, the empty
\* string, no such key, or a value that is no string.
SummaryValues == {"text", "", "missing", "not_str"}

\* segment_entities of the argument: an object, null, no such key, or a value
\* that is no object.
EntityShapes == {"object", "null", "missing", "not_object"}

NoFields == [f \in EntityFields |-> Missing]

\* Arguments in which at most two keys of segment_entities are present.
RawOutputs ==
  {[summary |-> sm, shape |-> "object",
    fields |-> [x \in EntityFields |-> IF x = f THEN v1 ELSE IF x = g THEN v2 ELSE Missing]] :
      sm \in SummaryValues, f \in EntityFields, g \in EntityFields,
      v1 \in FieldValues, v2 \in FieldValues}
  \cup {[summary |-> sm, shape |-> sh, fields |-> NoFields] :
          sm \in SummaryValues, sh \in EntityShapes}

\* validate_and_normalize 223-240: (is_valid, normalized); model_validate
\* raises when summary is no string, and normalized is then {}.
ValidateAndNormalize(raw) ==
  IF raw.summary = "not_str"
  THEN [is_valid |-> FALSE, empty |-> TRUE, summary |-> "", fields |-> [f \in EntityFields |-> <<>>]]
  ELSE [is_valid |-> raw.summary = "text",
        empty |-> FALSE,
        summary |-> IF raw.summary = "missing" THEN "" ELSE raw.summary,
        fields |-> [f \in EntityFields |->
                      IF raw.shape = "object" THEN Coerce(raw.fields[f]) ELSE <<>>]]

NormIdle == [pc |-> "idle", raw |-> [summary |-> "text", shape |-> "object", fields |-> NoFields],
             result |-> ValidateAndNormalize([summary |-> "not_str", shape |-> "object",
                                              fields |-> NoFields])]

Validate ==
  /\ norm.pc = "called"
  /\ norm' = [norm EXCEPT !.pc = "returned", !.result = ValidateAndNormalize(norm.raw)]
  /\ UNCHANGED <<runVars, characters, mg, mergeLog, charsAtStart, mcall>>

----------------------------------------------------------------------------
(* Initial states and the specification *)

\* Rows of pipeline_jobs left by earlier runs: a queued row with an attempt up
\* to the cap (a job put back in the queue), or a running row whose worker is
\* gone.
SeedJobs ==
  {[NewJob(1, FALSE, "seed") EXCEPT !.attempt = a, !.marks = a] : a \in 1..MAX_RETRIES_PER_JOB}
  \cup
  {[NewJob(1, FALSE, "seed") EXCEPT !.status = "running", !.attempt = 1, !.marks = 1]}

\* Segments whose outputs may exist before the first job runs.
PreExisting == {1}

InitOf(queues, kinds, deployed, scanners) ==
  /\ jobs \in queues
  /\ segKind \in [Segments -> kinds]
  /\ summaries \in SUBSET PreExisting
  /\ entities \in SUBSET PreExisting
  /\ characters = <<>>
  /\ th = [w \in AllWorkers |-> Idle]
  /\ dpc = [p \in Procs |-> IF p \in deployed THEN "off" ELSE "absent"]
  /\ jobsProcessed = [p \in Procs |-> 0]
  /\ staleSel = [p \in Procs |-> {}]
  /\ scan = [sc \in Scanners |-> IF sc \in scanners THEN ScanIdle
                                  ELSE [ScanIdle EXCEPT !.pc = "absent"]]
  /\ staleAtStart = [p \in Procs |-> {}]
  /\ recovered = [p \in Procs |-> {}]
  /\ claimedBy = [p \in Procs |-> {}]
  /\ rewritten = {}
  /\ modelFailed = FALSE
  /\ mg = [m \in Mergers |-> MgIdle]
  /\ mergeLog = <<>>
  /\ charsAtStart = <<>>
  /\ mcall = CallIdle

InitWith(kinds, deployed, scanners) ==
  InitOf({<<>>} \cup {<<r>> : r \in SeedJobs}, kinds, deployed, scanners)

Init == InitWith({"novel_html"}, {"A"}, {"s1"}) /\ norm = NormIdle

Next ==
  \/ \E w \in Workers : Poll(w)
  \/ \E w \in Workers : \E ok \in BOOLEAN : Claim(w, ok)
  \/ \E w \in Workers : \E run \in ModelRuns : Process(w, run)
  \/ \E w \in Workers : Materialize(w)
  \/ \E w \in Workers : Finish(w)
  \/ \E p \in Procs : DaemonStart(p)
  \/ \E p \in Procs : \E row \in staleSel[p] : RecoverOne(p, row)
  \/ \E p \in Procs : Dispatch(p)
  \/ \E j \in JobIds : Age(j)
  \/ \E sc \in Scanners : \E force \in BOOLEAN : \E rpc \in BOOLEAN : ScanStart(sc, force, rpc, FALSE)
  \/ \E sc \in Scanners : ScanCheck(sc)
  \/ \E sc \in Scanners : ScanInsert(sc)

Spec == Init /\ [][Next]_vars

\* Two runs of the enqueue scanner at the same time, over segments of every
\* kind, with no daemon running.
ScanInit == InitWith(SegKinds, {}, Scanners) /\ norm = NormIdle

ScanRuns ==
  \/ \E sc \in Scanners : \E force \in BOOLEAN : \E rpc \in BOOLEAN : \E dry_run \in BOOLEAN :
       ScanStart(sc, force, rpc, dry_run)
  \/ \E sc \in Scanners : ScanCheck(sc)
  \/ \E sc \in Scanners : ScanInsert(sc)

ScanSpec == ScanInit /\ [][ScanRuns]_vars

\* One daemon and the dry-run process, with no scanner: segment 1 of any kind
\* that run_once tells apart, every store call answered.
WorkKinds == {"novel_html", "novel_none", "manhwa_image", "missing"}

WorkInit ==
  /\ InitWith(WorkKinds, {"A"}, {})
  /\ segKind[2] = "novel_html"
  /\ norm = NormIdle

WorkNext ==
  \/ \E w \in AllWorkers : Poll(w)
  \/ \E w \in AllWorkers : Claim(w, TRUE)
  \/ \E w \in AllWorkers : \E run \in ModelRuns : Process(w, run)
  \/ \E w \in AllWorkers : Materialize(w)
  \/ \E w \in Workers : Finish(w)
  \/ \E p \in Procs : DaemonStart(p)
  \/ \E p \in Procs : \E row \in staleSel[p] : RecoverOne(p, row)
  \/ \E p \in Procs : Dispatch(p)
  \/ \E j \in JobIds : Age(j)
  \/ \E s \in Segments : RunDryRun(s)
  \/ DryReturn(DryWorker)
  \/ \E call \in {"run_once", "run_forever"} : DryRunOnce(DryWorker, call)

WorkSpec == WorkInit /\ [][WorkNext]_vars

\* One daemon that is given the processor whenever it can take a step, on a
\* queue of one or two jobs: every store and model call returns, so a thread
\* that can take its next step takes it, and so does the dispatcher.
LiveQueues ==
  {<<r>> : r \in SeedJobs}
  \cup {<<r, NewJob(2, f, "seed")>> : r \in SeedJobs, f \in BOOLEAN}

\* The model answers at once with a valid output, or never with one.
LiveRuns == {<<"valid_chars", "none", "none">>, <<"bad_json", "none", "none">>}

LiveInit ==
  /\ InitOf(LiveQueues, {"novel_html"}, {"A"}, {})
  /\ norm = NormIdle

LiveNext ==
  \/ \E w \in Workers : Poll(w)
  \/ \E w \in Workers : Claim(w, TRUE)
  \/ \E w \in Workers : \E run \in LiveRuns : Process(w, run)
  \/ \E w \in Workers : Materialize(w)
  \/ \E w \in Workers : Finish(w)
  \/ \E p \in Procs : DaemonStart(p)
  \/ \E p \in Procs : \E row \in staleSel[p] : RecoverOne(p, row)
  \/ \E p \in Procs : Dispatch(p)
  \/ \E j \in JobIds : Age(j)

Fairness ==
  /\ \A w \in Workers :
       /\ WF_vars(Poll(w))
       /\ WF_vars(Claim(w, TRUE))
       /\ WF_vars(\E run \in LiveRuns : Process(w, run))
       /\ WF_vars(Materialize(w))
       /\ WF_vars(Finish(w))
  /\ \A p \in Procs :
       /\ WF_vars(DaemonStart(p))
       /\ WF_vars(\E row \in staleSel[p] : RecoverOne(p, row))
       /\ WF_vars(Dispatch(p))

FairWorkSpec == LiveInit /\ [][LiveNext]_vars /\ Fairness

\* The daemon of LiveInit with store calls that meet connection errors: at
\* most one call per job handled, set_job_running included.
FaultNext ==
  \/ \E w \in Workers : Poll(w)
  \/ \E w \in Workers : \E ok \in BOOLEAN : Claim(w, ok)
  \/ \E w \in Workers : \E run \in LiveRuns : Process(w, run)
  \/ \E w \in Workers : Materialize(w)
  \/ \E w \in Workers : Finish(w)
  \/ \E w \in Workers : \E call \in ProcessCalls \cup FinishCalls :
       \E errors \in 1..StoreMaxRetries : Fault(w, call, errors)
  \/ \E p \in Procs : DaemonStart(p)
  \/ \E p \in Procs : \E row \in staleSel[p] : RecoverOne(p, row)
  \/ \E p \in Procs : Dispatch(p)
  \/ \E j \in JobIds : Age(j)

FaultSpec == LiveInit /\ [][FaultNext]_vars

\* The daemon of LiveInit with the loop of _call_model followed pass by pass:
\* segment 1 may have its outputs already, so that some jobs end before the
\* model is called.
CallRuns == {<<"valid_chars", "none", "none">>, <<"bad_json", "none", "none">>,
             <<"none", "none", "none">>}

CallNext ==
  \/ \E w \in Workers : Poll(w)
  \/ \E w \in Workers : Claim(w, TRUE)
  \/ \E w \in Workers : CallModelStart(w)
  \/ \E outcome \in CallOutcomes : CallModelAttempt(outcome)
  \/ \E w \in Workers : \E run \in CallRuns : ProcessCalled(w, run)
  \/ \E w \in Workers : ProcessUncalled(w)
  \/ \E w \in Workers : Materialize(w)
  \/ \E w \in Workers : Finish(w)
  \/ \E p \in Procs : DaemonStart(p)
  \/ \E p \in Procs : \E row \in staleSel[p] : RecoverOne(p, row)
  \/ \E p \in Procs : Dispatch(p)
  \/ \E j \in JobIds : Age(j)

CallSpec == LiveInit /\ [][CallNext]_vars

\* Two daemons on one pipeline_jobs table: each runs reset_stale_jobs when it
\* starts, whatever the other is doing. The table holds one job.
PairInit ==
  /\ InitOf({<<r>> : r \in SeedJobs}, {"novel_html"}, Procs, {})
  /\ norm = NormIdle

PairSpec == PairInit /\ [][LiveNext]_vars

\* One scanner and one daemon on an empty pipeline_jobs table, over novel and
\* manhwa segments with the assets either side asks for. No job is running
\* when the daemon starts, so reset_stale_jobs selects nothing.
AssetInit ==
  /\ InitOf({<<>>}, {"novel_html", "manhwa_image", "manhwa_ocr"}, {"A"}, {"s1"})
  /\ norm = NormIdle

AssetNext ==
  \/ \E w \in Workers : Poll(w)
  \/ \E w \in Workers : Claim(w, TRUE)
  \/ \E w \in Workers : \E run \in LiveRuns : Process(w, run)
  \/ \E w \in Workers : Materialize(w)
  \/ \E w \in Workers : Finish(w)
  \/ \E p \in Procs : DaemonStart(p)
  \/ \E p \in Procs : Dispatch(p)
  \/ \E sc \in Scanners : \E rpc \in BOOLEAN : ScanStart(sc, FALSE, rpc, FALSE)
  \/ \E sc \in Scanners : ScanCheck(sc)
  \/ \E sc \in Scanners : ScanInsert(sc)

AssetSpec == AssetInit /\ [][AssetNext]_vars

\* validate_and_normalize called on every argument of RawOutputs.
NormInit ==
  /\ InitWith({"novel_html"}, {}, {})
  /\ jobs = <<>> /\ summaries = {} /\ entities = {}
  /\ norm \in {[NormIdle EXCEPT !.pc = "called", !.raw = r] : r \in RawOutputs}

NormSpec == NormInit /\ [][Validate]_vars

\* The character step on its own: no daemon, no scanner; a characters table
\* that is empty or holds one row of an earlier run, and MaxMerges calls.
MergeSegs == 1..NumSegments

ArthurRow(description) ==
  [name |-> "Arthur", aliases |-> <<"Art">>,
   character_facts |-> <<[fact |-> "protagonist", segment |-> 1]>>,
   description |-> description]

SeedTables == {<<>>} \cup {<<ArthurRow(d)>> : d \in {"", "bio"}}

MergeInit ==
  /\ jobs = <<>>
  /\ segKind \in [Segments -> {"novel_html", "manhwa_ocr", "anime_sub"}]
  /\ segKind[1] = "novel_html"
  /\ summaries = {}
  /\ entities = {}
  /\ characters \in SeedTables
  /\ th = [w \in AllWorkers |-> Idle]
  /\ dpc = [p \in Procs |-> "absent"]
  /\ jobsProcessed = [p \in Procs |-> 0]
  /\ staleSel = [p \in Procs |-> {}]
  /\ scan = [sc \in Scanners |-> [ScanIdle EXCEPT !.pc = "absent"]]
  /\ staleAtStart = [p \in Procs |-> {}]
  /\ recovered = [p \in Procs |-> {}]
  /\ claimedBy = [p \in Procs |-> {}]
  /\ rewritten = {}
  /\ modelFailed = FALSE
  /\ mg = [m \in Mergers |-> MgIdle]
  /\ mergeLog = <<>>
  /\ charsAtStart = characters
  /\ norm = NormIdle
  /\ mcall = CallIdle

MergeNext ==
  \/ \E m \in Mergers : \E u \in CharUpdates : \E n \in MergeSegs : MergeLoad(m, u, n)
  \/ \E m \in Mergers : MergeApply(m)
  \/ \E m \in Mergers : \E name \in UpsertNames : \E facts \in UpsertFacts :
       \E n \in MergeSegs : UpsertCall(m, name, facts, n)
  \/ \E m \in Mergers : UpsertSelect(m)
  \/ \E m \in Mergers : UpsertWrite(m)

MergeSpec == MergeInit /\ [][MergeNext]_vars

\* Identity resolution on any table of up to two rows that name one person in
\* different ways, for updates with and without aliases.
LeywinRow ==
  [name |-> "Arthur Leywin", aliases |-> <<"Arthur">>, character_facts |-> <<>>,
   description |-> "bio"]
ArtRow == [name |-> "Art", aliases |-> <<>>, character_facts |-> <<>>, description |-> ""]
ResolveRows == {ArthurRow(""), LeywinRow, [LeywinRow EXCEPT !.aliases = <<>>], ArtRow}

BareArtUpdate == [name |-> "Art", aliases |-> <<>>, facts |-> <<"learns magic">>]

ResolveTables ==
  {<<>>} \cup {<<r>> : r \in ResolveRows}
  \cup {q \in ResolveRows \X ResolveRows : q[1].name # q[2].name}

ResolveInit ==
  /\ jobs = <<>>
  /\ segKind \in [Segments -> {"novel_html", "manhwa_ocr"}]
  /\ segKind[1] = "novel_html"
  /\ summaries = {}
  /\ entities = {}
  /\ characters \in ResolveTables
  /\ th = [w \in AllWorkers |-> Idle]
  /\ dpc = [p \in Procs |-> "absent"]
  /\ jobsProcessed = [p \in Procs |-> 0]
  /\ staleSel = [p \in Procs |-> {}]
  /\ scan = [sc \in Scanners |-> [ScanIdle EXCEPT !.pc = "absent"]]
  /\ staleAtStart = [p \in Procs |-> {}]
  /\ recovered = [p \in Procs |-> {}]
  /\ claimedBy = [p \in Procs |-> {}]
  /\ rewritten = {}
  /\ modelFailed = FALSE
  /\ mg = [m \in Mergers |-> MgIdle]
  /\ mergeLog = <<>>
  /\ charsAtStart = characters
  /\ norm = NormIdle
  /\ mcall = CallIdle

\* The character step called for one segment after the other.
ResolveNext ==
  \/ \E u \in CharUpdates \cup {BareArtUpdate} : \E n \in MergeSegs : MergeLoad("m1", u, n)
  \/ MergeApply("m1")

ResolveSpec == ResolveInit /\ [][ResolveNext]_vars

----------------------------------------------------------------------------
(* Properties *)

Holding(w) == th[w].pc \notin {"done", "poll", "raised"}
Processing(w) == th[w].pc \notin {"done", "poll", "claimed", "raised"}

\* C1: no job is held by two workers at the same time: once poll_next_job has
\* handed a job to one worker, no other worker obtains it.
C1_ClaimUniqueness ==
  \A w1, w2 \in Workers :
    (w1 # w2 /\ Holding(w1) /\ Holding(w2)) => th[w1].job # th[w2].job

\* C2: with force=false an output row that already exists is never written
\* again, so each output of a segment is written by at most one job.
C2_NoRewrite == rewritten = {}

\* C2 witness: a force=false job has passed the summary step of a segment whose
\* summary row exists, without writing it.
C2_Witness ==
  \E w \in Workers :
    /\ th[w].pc = "entities"
    /\ th[w].exSum /\ ~th[w].force
    /\ th[w].seg \in summaries
    /\ "segment_summaries" \notin th[w].wrote

\* C3: once a job is success or failed, no step changes its status.
C3_TerminalIsFinal ==
  [][\A j \in JobIds :
       jobs[j].status \in {"success", "failed"} => jobs'[j].status = jobs[j].status]_vars

\* C4: the attempt of a job created by the scanner never decreases and never
\* exceeds MAX_RETRIES_PER_JOB.
C4_AttemptMonotoneBounded ==
  /\ [](\A j \in JobIds :
          jobs[j].origin = "scanner" => jobs[j].attempt <= MAX_RETRIES_PER_JOB)
  /\ [][\A j \in JobIds :
          jobs[j].origin = "scanner" => jobs'[j].attempt >= jobs[j].attempt]_vars

\* C4 witness: a job of the scanner has been marked running, its attempt raised.
C4_Witness ==
  \E j \in JobIds : jobs[j].origin = "scanner" /\ jobs[j].attempt = 1
                    /\ jobs[j].status \in {"running", "success", "failed"}

\* C5: a job whose stored attempt has reached MAX_RETRIES_PER_JOB is never set
\* to running: the worker holding it marks it failed with 'Exceeded max
\* retries' and does not process it.
C5_CappedNeverRuns ==
  [][\A w \in Workers :
       (/\ th[w].pc = "claimed"
        /\ th'[w].pc # "claimed"
        /\ jobs[th[w].job].attempt >= MAX_RETRIES_PER_JOB)
       => /\ th'[w].pc = "done"
          /\ jobs'[th[w].job].status = "failed"
          /\ jobs'[th[w].job].error = "exceeded_max_retries"]_vars

SkipCase(w) == Processing(w) /\ th[w].pc # "process"
               /\ th[w].exSum /\ th[w].exEnt /\ ~th[w].force

C7_SkipExisting ==
  /\ [](\A w \in Workers :
          SkipCase(w) => /\ th[w].pc = "finish_ok"
                         /\ th[w].out = "skipped"
                         /\ th[w].modelCalls = 0
                         /\ th[w].wrote = {})
  /\ [][\A w \in Workers :
          /\ (/\ th[w].pc = "process" /\ th'[w].pc # "process"
              /\ segKind[th[w].seg] # "missing"
              /\ th[w].seg \in summaries /\ th[w].seg \in entities /\ ~th[w].force)
             => (th'[w].pc = "finish_ok" /\ th'[w].exSum /\ th'[w].exEnt)
          /\ (SkipCase(w) /\ th'[w].pc = "done")
             => (/\ jobs'[th[w].job].status = "success"
                 /\ jobs'[th[w].job].output = "skipped"
                 /\ store' = store)]_vars

\* C7 witness: a job has been finalized success with the skipped output.
C7_Witness ==
  \E j \in JobIds : jobs[j].status = "success" /\ jobs[j].output = "skipped"
                    /\ ~jobs[j].force /\ jobs[j].seg \in summaries \cap entities

\* C8: a job of a novel segment with a raw_html asset and no outputs yet, for
\* which the model returned a valid response naming one character, reaches its
\* finalization as a success, with the summary row, the entities row and the
\* character row written.
C8_NovelHappyPath ==
  \A w \in Workers :
    (/\ th[w].pc \in {"finish_ok", "finish_fail"}
     /\ th[w].out = "processed" /\ th[w].upd
     /\ ~th[w].exSum /\ ~th[w].exEnt
     /\ segKind[th[w].seg] = "novel_html")
    => /\ th[w].pc = "finish_ok"
       /\ th[w].seg \in summaries
       /\ th[w].seg \in entities
       /\ {characters[i].name : i \in 1..Len(characters)} = CharNames

\* C9: with only queued jobs of the scanner, segments that have their raw asset
\* and a model that always answers validly, once the queue is drained and every
\* worker is back, all jobs are success (none running) and the attempts sum to
\* the number of jobs.
RECURSIVE SumAttempts(_)
SumAttempts(n) == IF n = 0 THEN 0 ELSE jobs[n].attempt + SumAttempts(n - 1)

Quiescent ==
  /\ Len(jobs) > 0
  /\ QueuedIds = {}
  /\ \A sc \in Scanners : scan[sc].pc \in {"idle", "absent"}
  /\ \A w \in Workers : th[w].pc = "done"

GoodRun ==
  /\ ~modelFailed
  /\ \A j \in JobIds : jobs[j].origin = "scanner" /\ HasSourceText(segKind[jobs[j].seg])

C9_ClaimRace ==
  (Quiescent /\ GoodRun)
  => /\ \A j \in JobIds : jobs[j].status = "success"
     /\ SumAttempts(Len(jobs)) = Len(jobs)

\* C10: once a daemon has completed MAX_JOBS_PER_RESTART jobs none of its threads
\* claims a further job, and when it has exited none of the jobs it claimed is
\* left running.
C10_GracefulRestart ==
  /\ [](\A p \in Procs :
          dpc[p] = "exited" => \A j \in claimedBy[p] : jobs[j].status # "running")
  /\ [][\A w \in Workers :
          jobsProcessed[ProcOf(w)] >= MAX_JOBS_PER_RESTART
          => ~(th[w].pc = "poll" /\ th'[w].pc = "claimed")]_vars

\* C11: an exception raised while a worker handles a claimed job is caught in
\* run_once: it never ends the future, the job is left failed with the error
\* text and the worker is back for the next poll.
C11_ExceptionAtJobBoundary ==
  /\ [](\A w \in Workers : th[w].pc # "raised")
  /\ [][\A w \in Workers :
          (th[w].pc = "finish_fail" /\ th'[w].pc # "finish_fail")
          => /\ th'[w].pc = "done"
             /\ jobs'[th[w].job].status = "failed"
             /\ jobs'[th[w].job].error = "exception"]_vars

\* C18: for any job at most one repair call is made to the model: process_text
\* makes at most two calls, the first and one repair.
C18_SingleRepair ==
  \A w \in Workers : th[w].modelCalls <= 2

\* C19: the output process_text returns to process_job is one that passed
\* validation (its segment_summary.summary is not empty); when the output is
\* still invalid after repair the job goes to its failure with nothing
\* materialized.
C19_OnlyValidatedOutput ==
  \A w \in Workers :
    /\ (th[w].out = "processed" /\ Processing(w)) => IsValid(th[w].ret)
    /\ (th[w].ret \notin {"unset", "valid_chars", "valid_nochars"})
        => (th[w].pc = "finish_fail" /\ th[w].wrote = {})

\* C20: the scanner never inserts a job for a segment that has a summarize job
\* queued or running: no segment has two pending jobs.
PendingJobs(s) == {j \in JobIds : jobs[j].seg = s /\ jobs[j].status \in {"queued", "running"}}

C20_NoDuplicatePending ==
  \A s \in Segments : Cardinality(PendingJobs(s)) <= 1

----------------------------------------------------------------------------
(* Properties of the character step (MergeSpec) *)

MergesOnly == \A k \in 1..Len(mergeLog) : mergeLog[k][1] = "merge"
NormalizedAliases(row) == {NormalizeAlias(a) : a \in ToSet(row.aliases)}

\* What the update of caller m adds to a row: its facts for its segment, and
\* its aliases up to normalization (the canonical name is never an alias).
Contributed(m, row) ==
  /\ ToSet(NewFacts(mg[m].upd.facts, mg[m].seg)) \subseteq ToSet(row.character_facts)
  /\ \A a \in ToSet(mg[m].upd.aliases) :
       NormalizeAlias(a) \in {"", NormalizeAlias(row.name)} \cup NormalizedAliases(row)

\* C12: when two workers have each merged an update into the same existing
\* character, the row holds the aliases and the facts of both updates.
C12_NoLostCharacterUpdate ==
  \A m1, m2 \in Mergers :
    (/\ m1 # m2 /\ MergesOnly
     /\ mg[m1].pc = "done" /\ mg[m2].pc = "done"
     /\ mg[m1].hit # 0 /\ mg[m1].hit = mg[m2].hit)
    => Contributed(m1, characters[mg[m1].hit]) /\ Contributed(m2, characters[mg[m2].hit])

\* C13: an upsert_character whose insert met the duplicate-key error re-reads
\* the row and merges into it within 3 attempts: the facts the row held are
\* kept.
C13_DuplicateKeyMerge ==
  [][\A m \in Mergers :
       (/\ mg[m].pc = "upsert_write" /\ mg'[m].pc # "upsert_write"
        /\ mg[m].attempt >= 1 /\ mg[m].found # 0)
       => /\ mg'[m].pc = "done"
          /\ mg[m].attempt < UpsertMaxRetries
          /\ ToSet(characters[mg[m].found].character_facts)
               \subseteq ToSet(characters'[mg[m].found].character_facts)]_vars

\* C14: in every row of the characters table no alias normalizes to the
\* normalized canonical name, and no two aliases normalize to the same form.
C14_AliasesClean ==
  \A i \in 1..Len(characters) :
    LET row == characters[i] IN
      /\ NormalizeAlias(row.name) \notin NormalizedAliases(row)
      /\ \A k1, k2 \in 1..Len(row.aliases) :
           k1 # k2 => NormalizeAlias(row.aliases[k1]) # NormalizeAlias(row.aliases[k2])

\* C14 witness: an update whose aliases repeat the canonical name and one
\* another has been merged into an existing row.
C14_Witness ==
  \E m \in Mergers : /\ mg[m].pc = "done" /\ mg[m].kind = "merge"
                      /\ mg[m].upd = LowerUpdate
                      /\ characters[mg[m].hit].name = "Arthur"
                      /\ Len(characters[mg[m].hit].aliases) >= 1

\* C15: in every row of the characters table no two character_facts entries
\* have the same key (normalized fact text, segment).
C15_FactsDeduplicated ==
  \A i \in 1..Len(characters) :
    \A k1, k2 \in 1..Len(characters[i].character_facts) :
      k1 # k2 => FactKey(characters[i].character_facts[k1])
                 # FactKey(characters[i].character_facts[k2])

\* C16: merging the update and segment number that the last completed merge
\* applied, on the table that merge left, changes nothing in the table.
C16_MergeIdempotent ==
  [][\A m \in Mergers :
       (/\ mg[m].pc = "loaded" /\ mg'[m].pc # "loaded"
        /\ mg[m].at = Len(mergeLog) /\ mergeLog # <<>>
        /\ mergeLog[Len(mergeLog)][1] = "merge"
        /\ mergeLog[Len(mergeLog)][2] = mg[m].upd
        /\ mergeLog[Len(mergeLog)][3] = mg[m].seg)
       => characters' = characters]_vars

\* C17: from an empty table, segment 1 with {Arthur, [Art], [protagonist]} and
\* then segment 2 with {Art, [Arthur Leywin], [learns magic, protagonist]}
\* leave one row whose aliases hold Art and Arthur Leywin, not the canonical
\* name, and whose character_facts has two entries.
C17_ArthurScenario ==
  (/\ charsAtStart = <<>>
   /\ MgActive = {}
   /\ mergeLog = << <<"merge", ArthurUpdate, 1, 0>>, <<"merge", ArtUpdate, 2, 1>> >>)
  => /\ Len(characters) = 1
     /\ {"art", "arthur leywin"} \subseteq
          NormalizedAliases(characters[1]) \cup {NormalizeAlias(characters[1].name)}
     /\ NormalizeAlias(characters[1].name) \notin NormalizedAliases(characters[1])
     /\ Len(characters[1].character_facts) = 2

----------------------------------------------------------------------------
(* The character step and the media type (MergeSpec) *)

\* C27: a worker at the character step of a manhwa or anime segment passes
\* it over: it neither inserts nor updates a characters row, whatever
\* character_updates entry the model output carries.
C27_NovelOnlyCharacters ==
  [][\A m \in Mergers :
       (mg'[m] # mg[m] /\ mg'[m].kind # "upsert" /\ mg'[m].seg \in Segments
          /\ MediaOf(segKind[mg'[m].seg]) # "novel")
       => (characters' = characters /\ mg'[m].pc = "done" /\ mg'[m].kind = "skipped")]_vars

\* A manhwa or anime segment whose output names a character that has a row.
C27_Witness ==
  \E m \in Mergers :
    /\ mg[m].kind = "skipped" /\ mg[m].pc = "done"
    /\ MediaOf(segKind[mg[m].seg]) \in {"manhwa", "anime"}
    /\ FindExistingCharacter(characters, mg[m].upd.name, mg[m].upd.aliases) # 0

----------------------------------------------------------------------------
(* Properties of the enqueue scanner (ScanSpec) *)

\* C21: a scanner run that writes goes on to insert a job for the candidate it
\* has checked exactly when it runs with force, or the candidate has no job
\* queued or running.
C21_ForceOverridesPending ==
  [][\A sc \in Scanners :
       (scan[sc].pc = "check" /\ ~scan[sc].dry /\ scan'[sc] # scan[sc])
       => (scan'[sc].pc = "insert"
             <=> (scan[sc].force \/ ~CheckPendingJob(Head(scan[sc].cands))))]_vars

\* C22: a run started with force has among its candidates every segment that
\* has both its summary and its entities (and the raw asset of its media type).
C22_ForceIncludesComplete ==
  [][\A sc \in Scanners :
       (scan[sc].pc = "idle" /\ scan'[sc].pc = "check" /\ scan'[sc].force)
       => \A s \in Segments :
            (s \in summaries /\ s \in entities /\ HasRawAsset(segKind[s]))
            => s \in ToSet(scan'[sc].cands)]_vars

\* C23: a dry run changes neither pipeline_jobs nor the output tables, and
\* from any state of the store enqueue_jobs returns with dry_run the stats it
\* returns without it.
C23_DryRunFrame ==
  /\ [](\A force \in BOOLEAN : \A rpc \in BOOLEAN :
          LET c == Ascending(SegmentsMissingNlp(rpc))
              d == EnqueueJobs(jobs, c, force, TRUE)
              n == EnqueueJobs(jobs, c, force, FALSE)
          IN d.jobs = jobs /\ d.stats = n.stats)
  /\ [][\A sc \in Scanners :
          (scan[sc].dry /\ scan'[sc] # scan[sc]) => (jobs' = jobs /\ store' = store)]_vars

\* A dry run has gone past segment 1, for which a run that writes inserts a job.
C23_Witness ==
  \E sc \in Scanners :
    /\ scan[sc].pc = "check" /\ scan[sc].dry /\ scan[sc].cands = <<2>>
    /\ MissingOutput(1) /\ ~CheckPendingJob(1)
    /\ EnqueueJobs(jobs, <<1, 2>>, scan[sc].force, FALSE).stats.enqueued >= 1
    /\ EnqueueJobs(jobs, <<1, 2>>, scan[sc].force, TRUE).jobs = jobs

\* C24: a candidate whose jobs have all failed is not pending, so a run that
\* writes goes on to insert a job for it; and a segment whose jobs have all
\* failed gets a pending job again only by such an insert.
AllFailed(s) ==
  /\ MissingOutput(s)
  /\ \E j \in JobIds : jobs[j].seg = s
  /\ \A j \in JobIds : jobs[j].seg = s => jobs[j].status = "failed"

C24_FailedResumesByScanner ==
  /\ [][\A sc \in Scanners :
          (scan[sc].pc = "check" /\ ~scan[sc].dry /\ scan'[sc] # scan[sc]
             /\ AllFailed(Head(scan[sc].cands)))
          => scan'[sc].pc = "insert"]_vars
  /\ [][\A s \in Segments :
          (AllFailed(s) /\ PendingJobs(s)' # {})
          => /\ Len(jobs') = Len(jobs) + 1
             /\ jobs'[Len(jobs')] = NewJob(s, jobs'[Len(jobs')].force, "scanner")]_vars

----------------------------------------------------------------------------
(* Properties of the dry-run process and of run_once (WorkSpec) *)

\* C25: no step of the dry-run process changes pipeline_jobs,
\* segment_summaries, segment_entities or characters; it never holds a job,
\* and run_once and run_forever called on it poll for none.
C25_DryRunWritesNothing ==
  /\ [][th'[DryWorker] # th[DryWorker] => (jobs' = jobs /\ store' = store)]_vars
  /\ [](/\ th[DryWorker].job = 0
        /\ th[DryWorker].wrote = {}
        /\ th[DryWorker].pc \notin {"poll", "claimed"})

\* The dry run of a novel segment has gone through the three materialization
\* steps with a model output that carries character updates.
C25_Witness ==
  /\ th[DryWorker].pc = "finish_ok"
  /\ th[DryWorker].out = "processed"
  /\ th[DryWorker].upd
  /\ th[DryWorker].seg \notin summaries

----------------------------------------------------------------------------
(* Properties of validate_and_normalize (NormSpec) *)

\* C26: for an argument whose segment_entities is an object, each of the
\* thirteen fields comes back as the empty list when it was null or missing
\* and as the list of that one scalar when it was a scalar, and the output is
\* accepted as valid when its summary is a non-empty string.
C26_CoercesNullAndScalar ==
  (norm.pc = "returned" /\ norm.raw.shape = "object" /\ norm.raw.summary # "not_str")
  => /\ \A f \in EntityFields :
          /\ norm.raw.fields[f].tag \in {"missing", "null"} => norm.result.fields[f] = <<>>
          /\ norm.raw.fields[f].tag = "scalar"
               => norm.result.fields[f] = norm.raw.fields[f].items
     /\ norm.raw.summary = "text" => norm.result.is_valid

----------------------------------------------------------------------------
(* Properties of run_once and the dispatcher (WorkSpec, FairWorkSpec) *)

\* C28: a thread selects a job (poll_next_job under the poll lock) only while
\* no other thread of its process holds a selected job that it has yet to
\* mark running.
C28_PollLockCoversClaim ==
  [][\A w \in Workers :
       (th[w].pc = "poll" /\ th'[w].pc = "claimed")
       => \A w2 \in ThreadsOf(ProcOf(w)) \ {w} : th[w2].pc # "claimed"]_vars

\* Some pool thread is at its poll again and again.
KeepsPolling == []<>(\E w \in Workers : th[w].pc = "poll")

Terminal(j) == j \in JobIds /\ jobs[j].status \in {"success", "failed"}
Held(j) == \E w \in Workers : th[w].job = j /\ th[w].pc # "done"

\* C29 as stated: while a worker keeps polling, no job stays queued or running
\* forever.
C29_NoJobStuck ==
  KeepsPolling =>
    \A j \in 1..MaxJobs :
      (j \in JobIds /\ jobs[j].status \in {"queued", "running"}) ~> Terminal(j)

\* C29, for the jobs the pool works on: while a worker keeps polling, a job
\* that is queued, or running in the hands of a thread, ends success or failed.
C29_QueuedJobsFinish ==
  KeepsPolling =>
    \A j \in 1..MaxJobs :
      (j \in JobIds /\ (jobs[j].status = "queued" \/ (jobs[j].status = "running" /\ Held(j))))
        ~> Terminal(j)

\* The second job of the queue has been claimed and has ended failed, with the
\* daemon still polling.
C29_Witness ==
  /\ Len(jobs) = 2
  /\ jobs[2].status = "failed" /\ jobs[2].error = "exception"
  /\ dpc["A"] = "loop"
  /\ \E w \in Workers : th[w].pc = "poll"

\* The asset types process_job reads for a media type, and a segment that is
\* not there or has none of them.
ReadAssetTypes(media_type) ==
  CASE media_type = "novel" -> {"raw_html", "cleaned_text"}
    [] media_type = "manhwa" -> {"ocr_json"}
    [] media_type = "anime" -> {"raw_subtitle"}
    [] OTHER -> {}

BadInput(s) ==
  segKind[s] = "missing" \/ AssetsOf(segKind[s]) \cap ReadAssetTypes(MediaOf(segKind[s])) = {}

OutputsExist(s) == segKind[s] # "missing" /\ s \in summaries /\ s \in entities

\* C30 as stated: the job of a segment that is missing or has no asset to read
\* goes to the except branch with no model call and no output write, and ends
\* failed with the polled attempt plus one.
C30_BadInputAlwaysFails ==
  /\ [][\A w \in Workers :
          (th[w].pc = "process" /\ th'[w] # th[w] /\ BadInput(th[w].seg))
          => (th'[w].pc = "finish_fail" /\ th'[w].modelCalls = 0 /\ th'[w].wrote = {}
                /\ store' = store)]_vars
  /\ [][\A w \in Workers :
          (th[w].pc = "finish_fail" /\ th'[w] # th[w] /\ BadInput(th[w].seg))
          => (jobs'[th[w].job].status = "failed" /\ jobs'[th[w].job].error = "exception"
                /\ jobs'[th[w].job].attempt = th[w].attempt + 1)]_vars

\* C30, for a job that is not skipped: the same, unless the segment exists
\* with both outputs and the job does not force.
C30_InputMissingFails ==
  /\ [][\A w \in Workers :
          (th[w].pc = "process" /\ th'[w] # th[w] /\ BadInput(th[w].seg)
             /\ ~(OutputsExist(th[w].seg) /\ ~th[w].force))
          => (th'[w].pc = "finish_fail" /\ th'[w].modelCalls = 0 /\ th'[w].wrote = {}
                /\ store' = store)]_vars
  /\ [][\A w \in Workers :
          (th[w].pc = "finish_fail" /\ th'[w] # th[w] /\ BadInput(th[w].seg))
          => (jobs'[th[w].job].status = "failed" /\ jobs'[th[w].job].error = "exception"
                /\ jobs'[th[w].job].attempt = th[w].attempt + 1)]_vars

\* A job of a segment with nothing to read has ended failed, on its second
\* attempt.
C30_Witness ==
  \E j \in JobIds :
    /\ BadInput(jobs[j].seg) /\ ~OutputsExist(jobs[j].seg)
    /\ jobs[j].status = "failed" /\ jobs[j].error = "exception"
    /\ jobs[j].attempt = 2
    /\ \A w \in Workers : th[w].job # j

\* C31: a daemon whose threads have finalized MAX_JOBS_PER_RESTART jobs, in
\* success or in failed, eventually exits.
Finalized(p) == {j \in claimedBy[p] \cap JobIds : Terminal(j) /\ ~Held(j)}

C31_ExitsAfterFinalized ==
  \A p \in {"A"} :
    (Cardinality(Finalized(p)) >= MAX_JOBS_PER_RESTART) ~> (dpc[p] = "exited")

----------------------------------------------------------------------------
(* Properties of the store calls under connection errors (FaultSpec) *)

\* C32: one connection error on a store call made while a job is handled is
\* retried: the thread goes on from where it was, neither into the except
\* branch nor out of run_once with the job left running or queued.
C32_SingleErrorRetried ==
  /\ [][\A w \in Workers :
          (th[w].fault = NoFault /\ th'[w].fault # NoFault /\ th'[w].fault.errors = 1)
          => th'[w].pc = th[w].pc]_vars
  /\ [][\A w \in Workers :
          (th[w].pc = "claimed" /\ th'[w] # th[w]) => th'[w].pc # "raised"]_vars

----------------------------------------------------------------------------
(* Properties of the first model call (CallSpec) *)

RetryableErrors ==
  {e \in CallOutcomes :
     \/ e.class \in {"APIConnectionError", "APITimeoutError", "RateLimitError"}
     \/ e.class = "APIError" /\ e.status \in {429, 500, 503}}

\* C33: the first model call of a job makes at most MODEL_MAX_RETRIES + 1
\* attempts, makes another attempt only after a retryable error (connection
\* error, timeout, rate limit, status 5xx or 429), ends at once on any other
\* error, and the job of a call that raised goes on to be marked failed.
C33_ModelCallRetries ==
  /\ [](mcall.tries <= MODEL_MAX_RETRIES + 1)
  /\ [][(mcall.pc = "calling" /\ mcall.tries > 0 /\ mcall'.tries > mcall.tries)
          => mcall.last \in RetryableErrors]_vars
  /\ [][(mcall.pc = "calling" /\ mcall'.tries > mcall.tries
         /\ mcall'.last \notin RetryableErrors \cup {Returned})
          => mcall'.pc = "raised"]_vars
  /\ [][\A w \in Workers :
          (CalledFor(w) /\ mcall.pc = "raised" /\ th'[w] # th[w])
            => th'[w].pc = "finish_fail"]_vars
  /\ [][\A w \in Workers :
          (th[w].pc = "finish_fail" /\ th'[w] # th[w])
            => jobs'[th[w].job].status = "failed"]_vars

\* A call that raised on its last attempt after two retryable errors, and
\* whose job was then marked failed.
C33_Witness ==
  /\ mcall.pc = "raised" /\ mcall.tries = MODEL_MAX_RETRIES + 1
  /\ mcall.last \in RetryableErrors
  /\ mcall.job \in JobIds /\ jobs[mcall.job].status = "failed"
  /\ mcall.caller \in Workers /\ th[mcall.caller].pc = "done"

----------------------------------------------------------------------------
(* Properties of identity resolution (MergeSpec) *)

\* The update's normalized name and normalized aliases.
UpdateTerms(u) == {NormalizeAlias(u.name)} \cup {NormalizeAlias(u.aliases[k]) : k \in 1..Len(u.aliases)}

\* The rows of a table whose normalized name or one of whose normalized
\* aliases is among the update's terms.
Qualifying(table, u) ==
  {i \in 1..Len(table) :
     \/ NormalizeAlias(table[i].name) \in UpdateTerms(u)
     \/ \E k \in 1..Len(table[i].aliases) : NormalizeAlias(table[i].aliases[k]) \in UpdateTerms(u)}

\* C34: identity resolution returns the first row, in the list order of the
\* work's characters, that qualifies by its normalized name or a normalized
\* alias, and returns no match exactly when no row qualifies.
C34_FirstMatchResolves ==
  [][\A m \in Mergers :
       (mg[m].pc = "loaded" /\ mg'[m].pc # "loaded")
         => LET q == Qualifying(mg[m].snap, mg[m].upd) IN
              IF q = {} THEN mg'[m].pc \in {"upsert_select", "failed"}
              ELSE /\ mg'[m].pc = "done"
                   /\ mg'[m].hit \in q
                   /\ \A i \in q : mg'[m].hit <= i]_vars

\* A resolution over a table of which two rows qualify.
C34_Witness ==
  \E m \in Mergers :
    /\ mg[m].pc = "done" /\ mg[m].kind = "merge"
    /\ Cardinality(Qualifying(mg[m].snap, mg[m].upd)) >= 2
    /\ mg[m].hit = 1

\* C35: merging an update (its incoming description is empty) leaves the
\* description of the matched character as it was: a stored description that
\* is not empty is not replaced by an empty one.
C35_EmptyKeepsDescription ==
  [][\A m \in Mergers :
       (mg[m].pc = "loaded" /\ mg'[m].pc = "done" /\ mg'[m].hit # 0)
         => characters'[mg'[m].hit].description = characters[mg'[m].hit].description]_vars

\* C40: once an update named n has been merged into a character c that it
\* matched through an alias (its name is not c's canonical name), an update
\* with the name n and no alias resolves to c.
C40_NameKnownAfterAliasMatch ==
  [][\A m \in Mergers :
       (/\ mg[m].pc = "loaded" /\ mg'[m].pc = "done" /\ mg'[m].hit # 0
        /\ NormalizeAlias(mg[m].upd.name) # NormalizeAlias(characters[mg'[m].hit].name))
         => FindExistingCharacter(characters', mg[m].upd.name, <<>>) = mg'[m].hit]_vars

----------------------------------------------------------------------------
(* Properties of two daemons on one table (PairSpec) *)

\* C36: the stale recovery of a starting daemon never marks failed a job that
\* a thread of another daemon, still running, is processing.
C36_RecoverySparesLiveJobs ==
  [][\A p \in Procs : \A j \in JobIds :
       (j \in recovered'[p] \ recovered[p])
         => ~\E w \in Workers :
               ProcOf(w) # p /\ dpc[ProcOf(w)] = "loop" /\ Processing(w) /\ th[w].job = j]_vars

----------------------------------------------------------------------------
(* Properties of the attempt counter (Spec) *)

\* C37: in every reachable state the attempt of a job is the number of times
\* the job has been marked running.
C37_AttemptCountsRuns ==
  \A j \in JobIds : jobs[j].attempt = jobs[j].marks

----------------------------------------------------------------------------
(* Properties of finalized jobs and their outputs (WorkSpec) *)

\* C38: whenever a job handled by a worker of a daemon (not the dry-run
\* process) is in status success, its segment has a segment_summaries row and
\* a segment_entities row.
C38_SuccessHasOutputs ==
  \A j \in JobIds :
    jobs[j].status = "success" => (jobs[j].seg \in summaries /\ jobs[j].seg \in entities)

\* A job that a thread of daemon A polled is success and the daemon has
\* counted it.
C38_Witness ==
  \E j \in JobIds :
    /\ j \in claimedBy["A"]
    /\ jobs[j].status = "success"
    /\ jobsProcessed["A"] >= 1

----------------------------------------------------------------------------
(* Properties of the scanner and the processor together (AssetSpec) *)

\* C39: a job the scanner enqueued for a segment that has the raw asset the
\* scanner requires for its media type never fails in the processor for a
\* missing asset, that is before the model is called.
C39_AssetAgreement ==
  [][\A w \in Workers :
       (/\ th[w].pc = "process" /\ th'[w].pc = "finish_fail"
        /\ jobs[th[w].job].origin = "scanner"
        /\ HasRawAsset(segKind[th[w].seg]))
         => th'[w].modelCalls > 0]_vars

====
